---- MODULE Spec2Model ----
(***************************************************************************)
(* Model of mefiles (src/main.rs): an interactive terminal file browser.   *)
(*                                                                         *)
(* The state is the process position in main / run_app / open_in_neovim,   *)
(* the App value (current_dir, entries, selected_index, show_hidden), the  *)
(* terminal modes the program switches, the editor child process and the   *)
(* file system the program looks at.                                       *)
(*                                                                         *)
(* File names are sequences of character codes, so that to_lowercase, the  *)
(* string comparison and starts_with('.') are computed on the characters.  *)
(* A path is a record [abs, comps]: whether it starts at the root, and its *)
(* components as std::path::Path::components yields them.                  *)
(***************************************************************************)
EXTENDS Integers, Sequences, FiniteSets, TLC

VARIABLES
    pc,         \* position of the single thread in main/run_app/open_in_neovim
    outcome,    \* "running", or how the process ended
    res,        \* the value of `res` in main: result of run_app
    args,       \* the parsed command line: [path, all]
    app,        \* the App value
    key,        \* key.code of the event being dispatched in run_app
    term,       \* terminal modes: raw, alt (alternate screen), cursor (visible), mouse
    repaint,    \* terminal.clear() was called and no frame drawn since
    child,      \* the editor child process
    fs,         \* what became of the file system since the process started:
                \* the nodes removed, the directories replaced by a plain file
    unreadable  \* directories that read_dir cannot open

vars == <<pc, outcome, res, args, app, key, term, repaint, child, fs, unreadable>>

----------------------------------------------------------------------------
(* Bounds *)

\* how many changes the environment makes to the file system during a run
MaxFsChanges == 1

----------------------------------------------------------------------------
(* Names: sequences of character codes *)

DotDot == <<46, 46>>         \* ".."
CurDir == <<46>>             \* "."
N_d    == <<100>>            \* "d"
N_r    == <<46, 114>>        \* ".r"
N_s    == <<115>>            \* "s"
N_A    == <<65>>             \* "A"
N_a    == <<97>>             \* "a"
N_h    == <<46, 104>>        \* ".h"
N_bx   == <<33, 120>>        \* "!x"
N_L    == <<76>>             \* "L"

\* char::to_lowercase on the ASCII range
LowerChar(c) == IF c >= 65 /\ c <= 90 THEN c + 32 ELSE c

to_lowercase(s) == [i \in 1..Len(s) |-> LowerChar(s[i])]

\* str::starts_with('.')
starts_with_dot(s) == Len(s) > 0 /\ s[1] = 46

\* Ord for strings: -1 (Less), 0 (Equal), 1 (Greater), lexicographic on the characters
RECURSIVE StrCmp(_, _)
StrCmp(a, b) ==
    IF a = <<>> /\ b = <<>> THEN 0
    ELSE IF a = <<>> THEN -1
    ELSE IF b = <<>> THEN 1
    ELSE IF Head(a) < Head(b) THEN -1
    ELSE IF Head(a) > Head(b) THEN 1
    ELSE StrCmp(Tail(a), Tail(b))

----------------------------------------------------------------------------
(* Paths (std::path::Path) *)

NoPath == [abs |-> FALSE, comps |-> << <<>> >>]    \* None / Err

AbsPath(n) == [abs |-> TRUE, comps |-> n]
RelPath(cs) == [abs |-> FALSE, comps |-> cs]

\* Path::parent: None for the root and for the empty path, else the path
\* without its last component ("." has the parent "")
parent(p) ==
    IF p.comps = <<>> THEN NoPath
    ELSE [p EXCEPT !.comps = SubSeq(p.comps, 1, Len(p.comps) - 1)]

\* Path::join with a relative single-component argument
join(p, n) == [p EXCEPT !.comps = Append(p.comps, n)]

----------------------------------------------------------------------------
(* The file system *)

NoNode == << <<>> >>

\* every node that exists when the process starts, by canonical absolute path
Kind ==
    ( <<>>               :> "dir" )  @@
    ( <<N_d>>            :> "dir" )  @@
    ( <<N_r>>            :> "file" ) @@
    ( <<N_d, N_s>>       :> "dir" )  @@
    ( <<N_d, N_A>>       :> "file" ) @@
    ( <<N_d, N_a>>       :> "file" ) @@
    ( <<N_d, N_h>>       :> "file" ) @@
    ( <<N_d, N_s, N_bx>> :> "dir" )  @@
    ( <<N_d, N_s, N_L>>  :> "dangling" )     \* a symbolic link to nothing

Nodes == DOMAIN Kind
Dirs  == {n \in Nodes : Kind[n] = "dir"}

\* the working directory of the process
Cwd == <<N_d>>

Front(s) == SubSeq(s, 1, Len(s) - 1)
Last(s)  == s[Len(s)]

\* a file-system state g is [removed, replaced]: the nodes removed, and the
\* directories in whose place there is a plain file now
Unchanged == [removed |-> {}, replaced |-> {}]
Changes(g) == Cardinality(g.removed) + Cardinality(g.replaced)

\* a node exists while neither it nor a directory above it is gone
Exists(n, g) ==
    /\ n \in Nodes
    /\ \A i \in 0..Len(n) : SubSeq(n, 1, i) \notin g.removed
    /\ \A i \in 0..(Len(n) - 1) : SubSeq(n, 1, i) \notin g.replaced

KindOf(n, g) == IF n \in g.replaced THEN "file" ELSE Kind[n]

ChildNodes(n, g) == {c \in Nodes : Len(c) = Len(n) + 1 /\ Front(c) = n /\ Exists(c, g)}

\* path resolution as the kernel does it: component by component from node n
RECURSIVE Walk(_, _, _)
Walk(n, cs, g) ==
    IF ~Exists(n, g) THEN NoNode
    ELSE IF cs = <<>> THEN n
    ELSE IF KindOf(n, g) # "dir" THEN NoNode
    ELSE IF Head(cs) = CurDir THEN Walk(n, Tail(cs), g)
    ELSE IF Head(cs) = DotDot THEN Walk(IF n = <<>> THEN n ELSE Front(n), Tail(cs), g)
    ELSE IF Append(n, Head(cs)) \in Nodes THEN Walk(Append(n, Head(cs)), Tail(cs), g)
    ELSE NoNode

\* the node a path names, following symbolic links; the empty path names nothing
Resolve(p, g) ==
    IF p = NoPath \/ (~p.abs /\ p.comps = <<>>) THEN NoNode
    ELSE LET n == Walk(IF p.abs THEN <<>> ELSE Cwd, p.comps, g)
         IN  IF n # NoNode /\ KindOf(n, g) = "dangling" THEN NoNode ELSE n

\* Path::is_dir
is_dir(p, g) == Resolve(p, g) # NoNode /\ KindOf(Resolve(p, g), g) = "dir"

\* fs::canonicalize: the absolute path of the node, or Err
canonicalize(p, g) ==
    IF Resolve(p, g) = NoNode THEN NoPath ELSE AbsPath(Resolve(p, g))

\* fs::read_dir: the directory node opened, or Err
read_dir(p, g, u) ==
    IF is_dir(p, g) /\ Resolve(p, g) \notin u THEN Resolve(p, g) ELSE NoNode

\* fs::metadata: the kind of the node the path names, or Err
metadata(p, g) == IF Resolve(p, g) = NoNode THEN "Err" ELSE KindOf(Resolve(p, g), g)

\* Metadata::len of the files of the tree
FileLen(n) == Len(Last(n)) + 4

\* the orders in which read_dir may enumerate the children of a directory
Enumerations(n, g) ==
    LET cs == ChildNodes(n, g)
    IN  {o \in [1..Cardinality(cs) -> cs] : \A i, j \in DOMAIN o : i # j => o[i] # o[j]}

----------------------------------------------------------------------------
(* App *)

\* FileEntry; `modified` (a formatted time stamp) is left out
FileEntry(name, path, isdir, size) ==
    [name |-> name, path |-> path, is_dir |-> isdir, size |-> size]

\* the synthetic entry for the parent directory
parent_entry(dir) == FileEntry(DotDot, join(dir, DotDot), TRUE, 0)

\* the loop body of refresh_entries without the test for hidden names
keeps_child_ShowAll(dir, c, sh, g) ==
    metadata(join(dir, Last(c)), g) # "Err"

\* whether the loop body of refresh_entries pushes the enumerated child c of dir
keeps_child(dir, c, sh, g) ==
    /\ ~(~sh /\ starts_with_dot(Last(c)))
    /\ metadata(join(dir, Last(c)), g) # "Err"

\* the entry the loop body pushes for the enumerated child c of dir
child_entry(dir, c, g) ==
    LET path == join(dir, Last(c))
        isd  == metadata(path, g) = "dir"
    IN  FileEntry(Last(c), path, isd, IF isd THEN 0 ELSE FileLen(c))

\* the entries pushed for an enumeration `ord` of dir, in that order
pushed_entries(dir, ord, sh, g) ==
    LET kept == SelectSeq(ord, LAMBDA c : keeps_child(dir, c, sh, g))
    IN  [i \in 1..Len(kept) |-> child_entry(dir, kept[i], g)]

\* the comparator given to sort_by: -1 (Less), 0 (Equal), 1 (Greater)
compare_entries(a, b) ==
    IF a.is_dir /\ ~b.is_dir THEN -1
    ELSE IF ~a.is_dir /\ b.is_dir THEN 1
    ELSE StrCmp(to_lowercase(a.name), to_lowercase(b.name))

\* slice::sort_by is stable: an element goes behind every element not greater than it
sort_insert(sorted, e) ==
    LET k == Cardinality({i \in DOMAIN sorted : compare_entries(sorted[i], e) <= 0})
    IN  SubSeq(sorted, 1, k) \o <<e>> \o SubSeq(sorted, k + 1, Len(sorted))

RECURSIVE sort_by(_)
sort_by(s) == IF s = <<>> THEN <<>> ELSE sort_insert(sort_by(Front(s)), Last(s))

\* App { current_dir, entries, selected_index, show_hidden }
App(dir, entries, sel, sh) ==
    [current_dir |-> dir, entries |-> entries, selected_index |-> sel, show_hidden |-> sh]

\* a panic: the process ends where it stands, the terminal stays as it is
panics(how, a) ==
    /\ app' = a
    /\ outcome' = how
    /\ pc' = "exit"

\* self.entries at the end of refresh_entries: the entries `base` pushed before
\* the loop, then those of the enumeration `ord`, sorted
sorted_entries(dir, base, ord, sh, g) ==
    sort_by(base \o pushed_entries(dir, ord, sh, g))

\* the rest of refresh_entries once read_dir returned the directory `node`
\* for the path `dir`: the loop over the enumeration, and the sort
load_entries(dir, node, base, sh, g, ret) ==
    \E ord \in Enumerations(node, g) :
        /\ app' = App(dir, sorted_entries(dir, base, ord, sh, g), 0, sh)
        /\ outcome' = outcome
        /\ pc' = ret

\* refresh_entries giving up when the directory cannot be read, without a look
\* at the parent
refresh_entries_NoFallback(dir, sh, g, ret) ==
    LET base == IF parent(dir) # NoPath THEN <<parent_entry(dir)>> ELSE <<>>
    IN  IF read_dir(dir, g, unreadable) # NoNode
        THEN load_entries(dir, read_dir(dir, g, unreadable), base, sh, g, ret)
        ELSE panics("panic_read_dir", App(dir, base, 0, sh))

\* App::refresh_entries with self.current_dir = dir and self.show_hidden = sh,
\* on the file system in the state g; ret is where the caller goes on
refresh_entries(dir, sh, g, ret) ==
    LET base == IF parent(dir) # NoPath THEN <<parent_entry(dir)>> ELSE <<>>
        up   == parent(dir)
    IN  IF read_dir(dir, g, unreadable) # NoNode
        THEN load_entries(dir, read_dir(dir, g, unreadable), base, sh, g, ret)
        ELSE IF up # NoPath
        THEN IF read_dir(up, g, unreadable) # NoNode
             THEN load_entries(up, read_dir(up, g, unreadable), base, sh, g, ret)
             ELSE panics("panic_read_dir", App(up, base, 0, sh))     \* unwrap()
        ELSE panics("panic_read_dir", App(dir, base, 0, sh))         \* panic!

\* the directory navigate_to/navigate_up make current: the canonical path, or
\* the path as given when canonicalize fails
canonical_or(path, g) ==
    IF canonicalize(path, g) # NoPath THEN canonicalize(path, g) ELSE path

\* the file system after path.is_dir() and before fs::canonicalize(path): as it was,
\* or with the directory removed meanwhile
Removals(path, g) ==
    IF Changes(g) < MaxFsChanges /\ Resolve(path, g) # <<>>
    THEN {g, [g EXCEPT !.removed = @ \cup {Resolve(path, g)}]}
    ELSE {g}

\* navigate_to without the test of path.is_dir()
navigate_to_Unchecked(path) ==
    \E g \in Removals(path, fs) :
        /\ fs' = g
        /\ refresh_entries(canonical_or(path, g), app.show_hidden, g, "draw")

\* App::navigate_to
navigate_to(path) ==
    IF is_dir(path, fs)
    THEN \E g \in Removals(path, fs) :
            /\ fs' = g
            /\ refresh_entries(canonical_or(path, g), app.show_hidden, g, "draw")
    ELSE /\ pc' = "draw"
         /\ UNCHANGED <<app, outcome, fs>>

\* navigate_up reloading the listing also when there is no parent
navigate_up_AlwaysReload ==
    /\ refresh_entries(IF parent(app.current_dir) # NoPath
                       THEN canonical_or(parent(app.current_dir), fs)
                       ELSE app.current_dir,
                       app.show_hidden, fs, "draw")
    /\ UNCHANGED fs

\* App::navigate_up
navigate_up ==
    IF parent(app.current_dir) # NoPath
    THEN /\ refresh_entries(canonical_or(parent(app.current_dir), fs),
                            app.show_hidden, fs, "draw")
         /\ UNCHANGED fs
    ELSE /\ pc' = "draw"
         /\ UNCHANGED <<app, outcome, fs>>

\* App::toggle_hidden_files
toggle_hidden_files ==
    /\ refresh_entries(app.current_dir, ~app.show_hidden, fs, "draw")
    /\ UNCHANGED fs

----------------------------------------------------------------------------
(* The process: main, run_app, open_in_neovim *)

\* the terminal as the process finds it, and as it has to leave it
OriginalMode == [raw |-> FALSE, alt |-> FALSE, cursor |-> TRUE, mouse |-> FALSE]

\* the start directories of the runs: the default ".", and absolute directories
StartPaths ==
    {RelPath(<<CurDir>>), AbsPath(<<>>), AbsPath(<<N_d, N_s>>), AbsPath(<<N_d, N_s, N_bx>>)}

\* the permissions of the runs: which directories cannot be listed
UnreadableSets ==
    { {}, {<<N_d, N_s>>}, {<<N_d>>}, {<<N_d>>, <<N_d, N_s>>}, {<<>>, <<N_d>>, <<N_d, N_s>>} }

Init ==
    /\ pc = "m_enable_raw"
    /\ outcome = "running"
    /\ res = "none"
    /\ args \in [path : StartPaths, all : BOOLEAN]
    /\ app = App(args.path, <<>>, 0, args.all)
    /\ key = "none"
    /\ term = OriginalMode
    /\ repaint = FALSE
    /\ child = "none"
    /\ fs = Unchanged
    /\ unreadable \in UnreadableSets

\* `?` in main: main returns the error
main_returns_err ==
    /\ outcome' = "err"
    /\ pc' = "exit"

\* `?` in run_app and open_in_neovim: run_app returns the error to main,
\* which goes on to restore the terminal
run_app_returns(r) ==
    /\ res' = r
    /\ pc' = "m_disable_raw"

\* main: enable_raw_mode()?
MainEnableRaw(ok) ==
    /\ pc = "m_enable_raw"
    /\ IF ok THEN /\ term' = [term EXCEPT !.raw = TRUE]
                  /\ pc' = "m_enter_alt"
                  /\ UNCHANGED outcome
             ELSE /\ main_returns_err
                  /\ UNCHANGED term
    /\ UNCHANGED <<res, args, app, key, repaint, child, fs, unreadable>>

\* main: execute!(stdout, EnterAlternateScreen, EnableMouseCapture)?
MainEnterAlt(ok) ==
    /\ pc = "m_enter_alt"
    /\ IF ok THEN /\ term' = [term EXCEPT !.alt = TRUE, !.mouse = TRUE]
                  /\ pc' = "m_terminal_new"
                  /\ UNCHANGED outcome
             ELSE /\ main_returns_err
                  /\ UNCHANGED term
    /\ UNCHANGED <<res, args, app, key, repaint, child, fs, unreadable>>

\* main: Terminal::new(backend)?
MainTerminalNew(ok) ==
    /\ pc = "m_terminal_new"
    /\ IF ok THEN pc' = "m_app_new" /\ UNCHANGED outcome
             ELSE main_returns_err
    /\ UNCHANGED <<res, args, app, key, term, repaint, child, fs, unreadable>>

\* `args` once its fields were moved into App::new
Moved == [path |-> NoPath, all |-> FALSE]

\* main: App::new(args.path, args.all)
MainAppNew ==
    /\ pc = "m_app_new"
    /\ refresh_entries(args.path, args.all, fs, "draw")
    /\ args' = Moved
    /\ UNCHANGED <<res, key, term, repaint, child, fs, unreadable>>

\* run_app: terminal.draw(..)?; a frame without a cursor position hides the cursor.
\* The loop iteration starts here: `key` and the exit status of the editor of the
\* last iteration are out of scope.
Draw(ok) ==
    /\ pc = "draw"
    /\ key' = "none"
    /\ child' = "none"
    /\ IF ok THEN /\ term' = [term EXCEPT !.cursor = FALSE]
                  /\ repaint' = FALSE
                  /\ pc' = "read"
                  /\ UNCHANGED res
             ELSE /\ run_app_returns("err")
                  /\ UNCHANGED <<term, repaint>>
    /\ UNCHANGED <<outcome, args, app, fs, unreadable>>

\* run_app: event::read()? fails
ReadFails ==
    /\ pc = "read"
    /\ run_app_returns("err")
    /\ UNCHANGED <<outcome, args, app, key, term, repaint, child, fs, unreadable>>

\* run_app: an event that is no key event
NoKeyEvent ==
    /\ pc = "read"
    /\ pc' = "draw"
    /\ UNCHANGED <<outcome, res, args, app, key, term, repaint, child, fs, unreadable>>

\* KeyCode::Char('q')
KeyQuit ==
    /\ pc = "read"
    /\ key' = "q"
    /\ run_app_returns("ok")
    /\ UNCHANGED <<outcome, args, app, term, repaint, child, fs, unreadable>>

\* KeyCode::Char('h')
KeyToggleHidden ==
    /\ pc = "read"
    /\ key' = "h"
    /\ toggle_hidden_files
    /\ UNCHANGED <<res, args, term, repaint, child, unreadable>>

\* KeyCode::Up
KeyUp ==
    /\ pc = "read"
    /\ key' = "Up"
    /\ app' = IF app.selected_index > 0
              THEN [app EXCEPT !.selected_index = @ - 1]
              ELSE app
    /\ pc' = "draw"
    /\ UNCHANGED <<outcome, res, args, term, repaint, child, fs, unreadable>>

\* usize::saturating_sub
saturating_sub(a, b) == IF a >= b THEN a - b ELSE 0

\* KeyCode::Down without the bound on the index
KeyDown_Unclamped ==
    /\ pc = "read"
    /\ key' = "Down"
    /\ app' = [app EXCEPT !.selected_index = @ + 1]
    /\ pc' = "draw"
    /\ UNCHANGED <<outcome, res, args, term, repaint, child, fs, unreadable>>

\* KeyCode::Down
KeyDown ==
    /\ pc = "read"
    /\ key' = "Down"
    /\ app' = IF app.selected_index < saturating_sub(Len(app.entries), 1)
              THEN [app EXCEPT !.selected_index = @ + 1]
              ELSE app
    /\ pc' = "draw"
    /\ UNCHANGED <<outcome, res, args, term, repaint, child, fs, unreadable>>

\* app.entries[app.selected_index] (the index is 0-based)
selected_entry == app.entries[app.selected_index + 1]

\* KeyCode::Enter
KeyEnter ==
    /\ pc = "read"
    /\ key' = "Enter"
    /\ IF app.selected_index < Len(app.entries)
       THEN IF selected_entry.is_dir
            THEN navigate_to(selected_entry.path)
            ELSE /\ pc' = "nv_disable_raw"          \* open_in_neovim(&path, terminal)?
                 /\ UNCHANGED <<app, outcome, fs>>
       ELSE /\ pc' = "draw"
            /\ UNCHANGED <<app, outcome, fs>>
    /\ UNCHANGED <<res, args, term, repaint, child, unreadable>>

\* KeyCode::Backspace
KeyBackspace ==
    /\ pc = "read"
    /\ key' = "Backspace"
    /\ navigate_up
    /\ UNCHANGED <<res, args, term, repaint, child, unreadable>>

\* any other key
KeyOther ==
    /\ pc = "read"
    /\ key' = "other"
    /\ pc' = "draw"
    /\ UNCHANGED <<outcome, res, args, app, term, repaint, child, fs, unreadable>>

\* open_in_neovim going on when disable_raw_mode() failed
NvDisableRaw_ErrorIgnored(ok) ==
    /\ pc = "nv_disable_raw"
    /\ term' = [term EXCEPT !.raw = IF ok THEN FALSE ELSE @]
    /\ pc' = "nv_leave_alt"
    /\ UNCHANGED <<outcome, res, args, app, key, repaint, child, fs, unreadable>>

\* open_in_neovim: disable_raw_mode()?
NvDisableRaw(ok) ==
    /\ pc = "nv_disable_raw"
    /\ IF ok THEN /\ term' = [term EXCEPT !.raw = FALSE]
                  /\ pc' = "nv_leave_alt"
                  /\ UNCHANGED res
             ELSE /\ run_app_returns("err")
                  /\ UNCHANGED term
    /\ UNCHANGED <<outcome, args, app, key, repaint, child, fs, unreadable>>

\* open_in_neovim: execute!(.., LeaveAlternateScreen, DisableMouseCapture)?
NvLeaveAlt(ok) ==
    /\ pc = "nv_leave_alt"
    /\ IF ok THEN /\ term' = [term EXCEPT !.alt = FALSE, !.mouse = FALSE]
                  /\ pc' = "nv_show_cursor"
                  /\ UNCHANGED res
             ELSE /\ run_app_returns("err")
                  /\ UNCHANGED term
    /\ UNCHANGED <<outcome, args, app, key, repaint, child, fs, unreadable>>

\* open_in_neovim: terminal.show_cursor()?
NvShowCursor(ok) ==
    /\ pc = "nv_show_cursor"
    /\ IF ok THEN /\ term' = [term EXCEPT !.cursor = TRUE]
                  /\ pc' = "nv_spawn"
                  /\ UNCHANGED res
             ELSE /\ run_app_returns("err")
                  /\ UNCHANGED term
    /\ UNCHANGED <<outcome, args, app, key, repaint, child, fs, unreadable>>

\* what Command::status does when the child cannot be spawned:
\* .expect("Failed to execute neovim") panics
spawn_failed ==
    /\ outcome' = "panic_spawn"
    /\ pc' = "exit"
    /\ UNCHANGED child

\* open_in_neovim: Command::new("nvim").arg(path).status() starts the child
NvSpawn(ok) ==
    /\ pc = "nv_spawn"
    /\ IF ok THEN /\ child' = "running"
                  /\ pc' = "nv_wait"
                  /\ UNCHANGED outcome
             ELSE spawn_failed
    /\ UNCHANGED <<res, args, app, key, term, repaint, fs, unreadable>>

\* open_in_neovim returning when the editor reports a failure
after_status_Abort(status) ==
    IF status = "exited_err" THEN "m_disable_raw" ELSE "nv_enable_raw"

\* where open_in_neovim goes on when the child has exited with `status`:
\* a status that is no success is printed, and that is all
after_status(status) == "nv_enable_raw"

\* open_in_neovim: status() returns when the child has exited
NvChildExits(status) ==
    /\ pc = "nv_wait"
    /\ child' = status
    /\ pc' = after_status(status)
    /\ UNCHANGED <<outcome, res, args, app, key, term, repaint, fs, unreadable>>

\* open_in_neovim: enable_raw_mode()?
NvEnableRaw(ok) ==
    /\ pc = "nv_enable_raw"
    /\ IF ok THEN /\ term' = [term EXCEPT !.raw = TRUE]
                  /\ pc' = "nv_enter_alt"
                  /\ UNCHANGED res
             ELSE /\ run_app_returns("err")
                  /\ UNCHANGED term
    /\ UNCHANGED <<outcome, args, app, key, repaint, child, fs, unreadable>>

\* open_in_neovim: execute!(.., EnterAlternateScreen, EnableMouseCapture)?
NvEnterAlt(ok) ==
    /\ pc = "nv_enter_alt"
    /\ IF ok THEN /\ term' = [term EXCEPT !.alt = TRUE, !.mouse = TRUE]
                  /\ pc' = "nv_hide_cursor"
                  /\ UNCHANGED res
             ELSE /\ run_app_returns("err")
                  /\ UNCHANGED term
    /\ UNCHANGED <<outcome, args, app, key, repaint, child, fs, unreadable>>

\* open_in_neovim: terminal.hide_cursor()?
NvHideCursor(ok) ==
    /\ pc = "nv_hide_cursor"
    /\ IF ok THEN /\ term' = [term EXCEPT !.cursor = FALSE]
                  /\ pc' = "nv_clear"
                  /\ UNCHANGED res
             ELSE /\ run_app_returns("err")
                  /\ UNCHANGED term
    /\ UNCHANGED <<outcome, args, app, key, repaint, child, fs, unreadable>>

\* open_in_neovim: terminal.clear()?; Ok(()) and back in the loop of run_app
NvClear(ok) ==
    /\ pc = "nv_clear"
    /\ IF ok THEN /\ repaint' = TRUE
                  /\ pc' = "draw"
                  /\ UNCHANGED res
             ELSE /\ run_app_returns("err")
                  /\ UNCHANGED repaint
    /\ UNCHANGED <<outcome, args, app, key, term, child, fs, unreadable>>

\* main: disable_raw_mode()?
MainDisableRaw(ok) ==
    /\ pc = "m_disable_raw"
    /\ IF ok THEN /\ term' = [term EXCEPT !.raw = FALSE]
                  /\ pc' = "m_leave_alt"
                  /\ UNCHANGED outcome
             ELSE /\ main_returns_err
                  /\ UNCHANGED term
    /\ UNCHANGED <<res, args, app, key, repaint, child, fs, unreadable>>

\* main: execute!(.., LeaveAlternateScreen, DisableMouseCapture)?
MainLeaveAlt(ok) ==
    /\ pc = "m_leave_alt"
    /\ IF ok THEN /\ term' = [term EXCEPT !.alt = FALSE, !.mouse = FALSE]
                  /\ pc' = "m_show_cursor"
                  /\ UNCHANGED outcome
             ELSE /\ main_returns_err
                  /\ UNCHANGED term
    /\ UNCHANGED <<res, args, app, key, repaint, child, fs, unreadable>>

\* main: terminal.show_cursor()?, the error of run_app is printed, Ok(())
MainShowCursor(ok) ==
    /\ pc = "m_show_cursor"
    /\ IF ok THEN /\ term' = [term EXCEPT !.cursor = TRUE]
                  /\ outcome' = "ok"
                  /\ pc' = "exit"
             ELSE /\ main_returns_err
                  /\ UNCHANGED term
    /\ UNCHANGED <<res, args, app, key, repaint, child, fs, unreadable>>

\* the environment removes a file or a directory tree while the browser waits for input
FsRemove(n) ==
    /\ pc = "read"
    /\ Changes(fs) < MaxFsChanges
    /\ n # <<>>
    /\ Exists(n, fs)
    /\ fs' = [fs EXCEPT !.removed = @ \cup {n}]
    /\ UNCHANGED <<pc, outcome, res, args, app, key, term, repaint, child, unreadable>>

\* the environment puts a plain file in the place of a directory
FsReplace(n) ==
    /\ pc = "read"
    /\ Changes(fs) < MaxFsChanges
    /\ n # <<>>
    /\ Exists(n, fs)
    /\ KindOf(n, fs) = "dir"
    /\ fs' = [fs EXCEPT !.replaced = @ \cup {n}]
    /\ UNCHANGED <<pc, outcome, res, args, app, key, term, repaint, child, unreadable>>

Next ==
    \/ \E ok \in BOOLEAN : MainEnableRaw(ok)
    \/ \E ok \in BOOLEAN : MainEnterAlt(ok)
    \/ \E ok \in BOOLEAN : MainTerminalNew(ok)
    \/ MainAppNew
    \/ \E ok \in BOOLEAN : Draw(ok)
    \/ ReadFails
    \/ NoKeyEvent
    \/ KeyQuit
    \/ KeyToggleHidden
    \/ KeyUp
    \/ KeyDown
    \/ KeyEnter
    \/ KeyBackspace
    \/ KeyOther
    \/ \E ok \in BOOLEAN : NvDisableRaw(ok)
    \/ \E ok \in BOOLEAN : NvLeaveAlt(ok)
    \/ \E ok \in BOOLEAN : NvShowCursor(ok)
    \/ \E ok \in BOOLEAN : NvSpawn(ok)
    \/ \E status \in {"exited_ok", "exited_err"} : NvChildExits(status)
    \/ \E ok \in BOOLEAN : NvEnableRaw(ok)
    \/ \E ok \in BOOLEAN : NvEnterAlt(ok)
    \/ \E ok \in BOOLEAN : NvHideCursor(ok)
    \/ \E ok \in BOOLEAN : NvClear(ok)
    \/ \E ok \in BOOLEAN : MainDisableRaw(ok)
    \/ \E ok \in BOOLEAN : MainLeaveAlt(ok)
    \/ \E ok \in BOOLEAN : MainShowCursor(ok)
    \/ \E n \in Nodes : FsRemove(n)
    \/ \E n \in Nodes : FsReplace(n)

Spec == Init /\ [][Next]_vars

----------------------------------------------------------------------------
(* Properties *)

UiMode(t)        == t.raw /\ t.alt /\ ~t.cursor
TerminalFree(t)  == ~t.raw /\ ~t.alt /\ t.cursor
HandoffPcs ==
    {"nv_disable_raw", "nv_leave_alt", "nv_show_cursor", "nv_spawn", "nv_wait",
     "nv_enable_raw", "nv_enter_alt", "nv_hide_cursor", "nv_clear"}
Exited == {"exited_ok", "exited_err"}

\* C1: in every reachable state the selected index is valid for the entries:
\* 0 <= selected_index < len(entries), or 0 when there are no entries
C1_SelectedIndexValid ==
    /\ app.selected_index >= 0
    /\ \/ app.selected_index < Len(app.entries)
       \/ app.entries = <<>> /\ app.selected_index = 0

\* the cursor was moved down on an empty listing
C1_Witness == pc = "draw" /\ key = "Down" /\ app.entries = <<>>

\* C2: whenever the process has ended, on whatever path, the terminal is back in
\* its original mode: raw mode disabled, alternate screen left, cursor visible
C2_TerminalRestoredOnExit == pc = "exit" => TerminalFree(term)

\* C3: while the editor child runs the UI mode is suspended, and the browser
\* draws and reads only when no child runs and the UI mode is (re-)entered
C3_OneOwnerOfTerminal ==
    /\ child = "running" => TerminalFree(term) /\ pc = "nv_wait"
    /\ pc \in {"draw", "read"} => child # "running" /\ term.raw /\ term.alt
    /\ pc = "draw" /\ child \in Exited => UiMode(term)

\* the editor child is running
C3_Witness == child = "running" /\ pc = "nv_wait"

\* C4: the handoff leaves the UI mode, then runs the child to completion, then
\* re-enters the UI mode and forces a repaint; whatever the exit status of the
\* child the loop goes on browsing, and no step of the handoff changes the
\* navigation state
C4_Handoff ==
    [][ /\ pc = "read" /\ pc' \in HandoffPcs =>
              key' = "Enter" /\ ~selected_entry.is_dir /\ pc' = "nv_disable_raw"
        /\ child' = "running" /\ child # "running" =>
              TerminalFree(term) /\ pc = "nv_spawn"
        /\ pc = "nv_wait" =>
              child' \in Exited /\ pc' = "nv_enable_raw" /\ outcome' = "running"
        /\ pc \in HandoffPcs /\ term'.raw /\ ~term.raw => child \in Exited
        /\ pc \in HandoffPcs /\ pc' = "draw" =>
              /\ child \in Exited /\ UiMode(term') /\ repaint'
              /\ outcome' = "running" /\ res' = "none"
        /\ pc \in HandoffPcs => app' = app
      ]_vars

\* the handoff is over, the editor had exited with a failure status, and the
\* browser is about to draw
C4_Witness ==
    pc = "draw" /\ child = "exited_err" /\ repaint /\ outcome = "running" /\ res = "none"

\* C5: when the editor child cannot be spawned the process does not end and the
\* loop goes on browsing
C5_SpawnFailureNonFatal ==
    [][pc = "nv_spawn" /\ child' # "running" =>
          outcome' = "running" /\ pc' # "exit" /\ res' = "none"]_vars

\* the path and ancestors of a path, lexically: the path itself, its parent, ...
SelfAndAncestors(p) ==
    {[p EXCEPT !.comps = SubSeq(p.comps, 1, i)] : i \in 0..Len(p.comps)}

\* the nearest of them that read_dir can open, or NoPath
NearestReadable(p, g) ==
    LET ok == {a \in SelfAndAncestors(p) : read_dir(a, g, unreadable) # NoNode}
    IN  IF ok = {} THEN NoPath
        ELSE CHOOSE a \in ok : \A b \in ok : Len(b.comps) <= Len(a.comps)

\* the entries of the children of the directory `dir` that are visible under sh
ChildListing(dir, sh, g) ==
    {child_entry(dir, c, g) :
        c \in {x \in ChildNodes(Resolve(dir, g), g) : keeps_child(dir, x, sh, g)}}

\* the App a holds the children of `dir` as its listing, and `dir` as current_dir
Loaded(a, dir, g) ==
    /\ a.current_dir = dir
    /\ {a.entries[i] : i \in {j \in DOMAIN a.entries : a.entries[j].name # DotDot}}
          = ChildListing(dir, a.show_hidden, g)

\* the step is a call of descend (navigate_to) on a directory
DescendsNow ==
    /\ pc = "read" /\ key' = "Enter"
    /\ app.selected_index < Len(app.entries)
    /\ selected_entry.is_dir
    /\ is_dir(selected_entry.path, fs)

\* the step is a call of ascend (navigate_up) from a directory with a parent
AscendsNow ==
    /\ pc = "read" /\ key' = "Backspace"
    /\ parent(app.current_dir) # NoPath

\* the step is a call of toggle_hidden
TogglesNow == pc = "read" /\ key' = "h"

\* the directory the step sets out to load, NoPath if the step loads nothing
LoadTarget ==
    IF pc = "m_app_new" THEN args.path
    ELSE IF TogglesNow THEN app.current_dir
    ELSE IF AscendsNow THEN canonical_or(parent(app.current_dir), fs')
    ELSE IF DescendsNow THEN canonical_or(selected_entry.path, fs')
    ELSE NoPath

\* the step loads a directory and read_dir fails on it
LoadFailsNow ==
    /\ pc \in {"m_app_new", "read"}
    /\ LoadTarget # NoPath
    /\ read_dir(LoadTarget, fs', unreadable) = NoNode

C7_CanonicalizeFailureRecovered ==
    [][ \/ AscendsNow /\ canonicalize(parent(app.current_dir), fs') = NoPath
        \/ DescendsNow /\ canonicalize(selected_entry.path, fs') = NoPath
        => outcome' = "running" /\ pc' = "draw" /\ app'.selected_index = 0
      ]_vars

\* name and kind of the entries of a, as a set
Shown(entries) == {[name |-> entries[i].name, is_dir |-> entries[i].is_dir] : i \in DOMAIN entries}

\* name and kind of the listing of the directory dir under the flag sh
ShownListing(dir, sh, g) ==
    {[name |-> e.name, is_dir |-> e.is_dir] :
        e \in ChildListing(dir, sh, g) \cup
              (IF parent(dir) # NoPath THEN {parent_entry(dir)} ELSE {})}

\* C8: after a call of descend, ascend or toggle_hidden that is none of the
\* no-ops and returns, the selected index is 0 and the entries are the listing
\* of the new current directory under the new flag
C8_ReloadedAfterTransition ==
    [][ (DescendsNow \/ AscendsNow \/ TogglesNow) /\ outcome' = "running" =>
          /\ app'.selected_index = 0
          /\ app'.show_hidden = (IF TogglesNow THEN ~app.show_hidden ELSE app.show_hidden)
          /\ Shown(app'.entries) = ShownListing(app'.current_dir, app'.show_hidden, fs')
          /\ Len(app'.entries) = Cardinality(Shown(app'.entries))
      ]_vars

\* C9: ascend from a directory without a parent changes nothing of the
\* navigation state
C9_AscendAtRootNoOp ==
    [][pc = "read" /\ key' = "Backspace" /\ parent(app.current_dir) = NoPath =>
          app' = app /\ outcome' = "running" /\ pc' = "draw"]_vars

\* ascend was called at the root while the cursor was not on the first entry
C9_Witness ==
    /\ pc = "draw" /\ key = "Backspace" /\ outcome = "running"
    /\ parent(app.current_dir) = NoPath
    /\ app.selected_index > 0

\* C10: descend with a path that is no directory (a plain file, or nothing any
\* more) changes nothing of the navigation state
C10_DescendNonDirNoOp ==
    [][ /\ pc = "read" /\ key' = "Enter"
        /\ app.selected_index < Len(app.entries)
        /\ selected_entry.is_dir
        /\ ~is_dir(selected_entry.path, fs)
        => app' = app /\ outcome' = "running" /\ pc' = "draw"]_vars

\* descend was called on an entry listed as a directory, in whose place there
\* is a plain file now, while the cursor was not on the first entry
C10_Witness ==
    /\ pc = "draw" /\ key = "Enter" /\ outcome = "running"
    /\ app.selected_index > 0
    /\ selected_entry.is_dir
    /\ metadata(selected_entry.path, fs) = "file"

\* the same, with nothing left at the path of the entry
C10_WitnessRemoved ==
    /\ pc = "draw" /\ key = "Enter" /\ outcome = "running"
    /\ app.selected_index > 0
    /\ selected_entry.is_dir
    /\ metadata(selected_entry.path, fs) = "Err"

\* the step loads a directory and refresh_entries returns
LoadsNow ==
    /\ pc \in {"m_app_new", "read"}
    /\ LoadTarget # NoPath
    /\ outcome' = "running"

\* the children of the directory node that are visible under the flag sh
VisibleChildren(node, sh, g) ==
    {c \in ChildNodes(node, g) : sh \/ ~starts_with_dot(Last(c))}

\* those of them whose metadata can be read
ReadableChildren(node, sh, g) ==
    {c \in VisibleChildren(node, sh, g) : KindOf(c, g) # "dangling"}

\* the entries es, the synthetic ".." aside, are the nodes cs, each once, with
\* the name and the kind of the node
ExactlyOnce(es, cs, g) ==
    LET idx == {i \in DOMAIN es : es[i].name # DotDot}
    IN  /\ {es[i].name : i \in idx} = {Last(c) : c \in cs}
        /\ Cardinality(idx) = Cardinality(cs)
        /\ \A i \in idx : \A c \in cs :
              es[i].name = Last(c) => es[i].is_dir = (KindOf(c, g) = "dir")

\* directories before files, and the names of each group in case-insensitive
\* alphabetical order
GroupedAndSorted(es) ==
    \A i, j \in DOMAIN es :
        i < j =>
            /\ es[i].is_dir \/ ~es[j].is_dir
            /\ es[i].is_dir = es[j].is_dir =>
                  StrCmp(to_lowercase(es[i].name), to_lowercase(es[j].name)) <= 0

\* C11 as claimed: a load leaves exactly the children of the current directory
\* that are visible under the flag as entries (the synthetic ".." aside), each
\* once, directories first, each group in case-insensitive alphabetical order
C11_ExactlyVisibleChildren ==
    [][LoadsNow =>
          /\ ExactlyOnce(app'.entries,
                         VisibleChildren(Resolve(app'.current_dir, fs'),
                                         app'.show_hidden, fs'), fs')
          /\ GroupedAndSorted(app'.entries)
      ]_vars

\* C11 amended: a load leaves as entries, the synthetic ".." aside, exactly the
\* children of the current directory that are visible under the flag and whose
\* metadata can be read, each once; directories (".." among them) come before
\* files, each group in case-insensitive alphabetical order
C11_ExactlyReadableVisibleChildren ==
    [][LoadsNow =>
          /\ ExactlyOnce(app'.entries,
                         ReadableChildren(Resolve(app'.current_dir, fs'),
                                          app'.show_hidden, fs'), fs')
          /\ GroupedAndSorted(app'.entries)
      ]_vars

\* /d is listed with the hidden file left out and all the other children there
C11_Witness ==
    /\ pc = "draw" /\ outcome = "running" /\ args = Moved
    /\ app.current_dir = AbsPath(<<N_d>>)
    /\ ~app.show_hidden
    /\ fs = Unchanged
    /\ {app.entries[i].name : i \in DOMAIN app.entries} = {DotDot, N_s, N_A, N_a}

\* /d/s is listed without its dangling link
C11_WitnessDangling ==
    /\ pc = "draw" /\ outcome = "running" /\ args = Moved
    /\ app.current_dir = AbsPath(<<N_d, N_s>>)
    /\ fs = Unchanged
    /\ {app.entries[i].name : i \in DOMAIN app.entries} = {DotDot, N_bx}

\* the App has been built and no load of it has panicked
Listed ==
    /\ args = Moved
    /\ outcome \in {"running", "ok", "err"}

\* two entries of one group whose names are equal case-insensitively
Tie(e1, e2) ==
    /\ e1.is_dir = e2.is_dir
    /\ to_lowercase(e1.name) = to_lowercase(e2.name)

\* C12: within the directory group and within the file group, two entries
\* whose names are equal case-insensitively ("A" and "a") stand in natural
\* (case-sensitive) string order, whatever order the enumeration returned
C12_TiesInNaturalOrder ==
    Listed =>
        \A i, j \in DOMAIN app.entries :
            (i < j /\ Tie(app.entries[i], app.entries[j])) =>
                StrCmp(app.entries[i].name, app.entries[j].name) <= 0

\* C13: whenever the current directory has a parent, the synthetic ".." entry
\* is entries[0], whatever the names of the children (directory names that
\* sort before "..", such as "!x", included)
C13_DotDotFirst ==
    (Listed /\ parent(app.current_dir) # NoPath) =>
        /\ app.entries # <<>>
        /\ app.entries[1].name = DotDot

\* the sequences a load of the readable directory dir under the flag sh can
\* leave as entries, one for each order the enumeration may come in
Loads(dir, sh, g) ==
    LET base == IF parent(dir) # NoPath THEN <<parent_entry(dir)>> ELSE <<>>
    IN  {sorted_entries(dir, base, ord, sh, g) :
            ord \in Enumerations(read_dir(dir, g, unreadable), g)}

\* C14: with the filesystem as it is, loading the current directory under the
\* current flag yields one and the same entry sequence every time, for every
\* order the enumeration may return
C14_LoadIdempotent ==
    (Listed /\ read_dir(app.current_dir, fs, unreadable) # NoNode) =>
        \A es1, es2 \in Loads(app.current_dir, app.show_hidden, fs) : es1 = es2

\* C15: from every start path, the default "." included, the current directory
\* that the App holds and the status line shows is an absolute path
C15_CurrentDirAbsolute ==
    Listed => app.current_dir.abs

----------------------------------------------------------------------------
(* The runs over a static filesystem in which every directory is readable *)

InitStatic ==
    /\ Init
    /\ unreadable = {}

\* KeyCode::Enter with no change of the filesystem during navigate_to
KeyEnterStatic ==
    /\ KeyEnter
    /\ fs' = fs

NextStatic ==
    \/ \E ok \in BOOLEAN : MainEnableRaw(ok)
    \/ \E ok \in BOOLEAN : MainEnterAlt(ok)
    \/ \E ok \in BOOLEAN : MainTerminalNew(ok)
    \/ MainAppNew
    \/ \E ok \in BOOLEAN : Draw(ok)
    \/ ReadFails
    \/ NoKeyEvent
    \/ KeyQuit
    \/ KeyToggleHidden
    \/ KeyUp
    \/ KeyDown
    \/ KeyEnterStatic
    \/ KeyBackspace
    \/ KeyOther
    \/ \E ok \in BOOLEAN : NvDisableRaw(ok)
    \/ \E ok \in BOOLEAN : NvLeaveAlt(ok)
    \/ \E ok \in BOOLEAN : NvShowCursor(ok)
    \/ \E ok \in BOOLEAN : NvSpawn(ok)
    \/ \E status \in {"exited_ok", "exited_err"} : NvChildExits(status)
    \/ \E ok \in BOOLEAN : NvEnableRaw(ok)
    \/ \E ok \in BOOLEAN : NvEnterAlt(ok)
    \/ \E ok \in BOOLEAN : NvHideCursor(ok)
    \/ \E ok \in BOOLEAN : NvClear(ok)
    \/ \E ok \in BOOLEAN : MainDisableRaw(ok)
    \/ \E ok \in BOOLEAN : MainLeaveAlt(ok)
    \/ \E ok \in BOOLEAN : MainShowCursor(ok)

SpecStatic == InitStatic /\ [][NextStatic]_vars

\* C16: over a static filesystem in which every directory is readable, no
\* sequence of key events from any start directory (the default "." included)
\* makes the process panic
C16_NoPanicOnStaticReadable ==
    outcome \notin {"panic_read_dir", "panic_spawn"}

\* the step of KeyCode::Enter with the synthetic ".." entry selected, the
\* filesystem left alone
EnterOnDotDot ==
    /\ KeyEnter
    /\ app.selected_index < Len(app.entries)
    /\ selected_entry.name = DotDot
    /\ fs' = fs

\* C17: in every state whose entries hold the synthetic ".." entry, Enter on
\* that entry leaves the navigation state (current directory, entries,
\* selected index, show-hidden flag) that Backspace leaves from that state
C17_EnterOnDotDotIsAscend ==
    [][EnterOnDotDot => navigate_up]_vars

\* C18: the entries hold the synthetic ".." entry only if the current
\* directory has a parent, also after a load that fell back from an unreadable
\* directory to its parent
C18_DotDotOnlyWithParent ==
    (Listed /\ \E i \in DOMAIN app.entries : app.entries[i].name = DotDot) =>
        parent(app.current_dir) # NoPath

====
